---- MODULE Spec2Model ----
(***************************************************************************)
(* F5-TTS inference service (src/f5_tts/fastapi_server.py) and the         *)
(* environment checker (test_model_load.py).                               *)
(*                                                                         *)
(* The service is a FastAPI application whose handlers are coroutines run  *)
(* by one event loop: a handler runs without interruption until it awaits  *)
(* or returns.  Every source line that reads or writes the module globals  *)
(* is a step of the model; the variable loop names the request that holds  *)
(* the event loop (0 when the loop is free).                               *)
(***************************************************************************)
EXTENDS Integers, Sequences, FiniteSets, TLC

\* Number of requests that can be in flight at the same time.
NumReq == 2
\* Number of distinct model identifiers a caller may send in the model field.
NumModels == 2

None == "None"
DEFAULT_MODEL == "F5TTS_v1_Base"
DEFAULT_CKPT_FILE == "models/F5-TTS/F5TTS_v1_Base/model_1250000.safetensors"
DEFAULT_VOCAB_FILE == "models/F5-TTS/F5TTS_v1_Base/vocab.txt"

ModelNames == <<"F5TTS_v1_Base", "E2TTS_Base", "F5TTS_Small", "F5TTS_Base">>
Models == {ModelNames[i] : i \in 1..NumModels}
\* Declared content types of an upload; None is an upload without one.
ContentTypes == {"audio/wav", "text/plain", None}
Req == 1..NumReq

VARIABLES
    f5tts_instance,     \* <<>> (None) or the arguments the handle was built with
    current_model,
    current_ckpt_file,
    model_loaded,
    F5TTS,              \* TRUE once f5_tts.api.F5TTS has been imported
    req,                \* per request: the handler's locals and position
    loop,               \* the request running on the event loop, 0 if none
    sent,               \* the handler that returned in the last step: its locals
                        \* and response (IdleReq when the last step returned nothing)
    observed,           \* the handle globals as read by the last step, if it read them
    loadAttempted,      \* history: some call entered the construction branch
    loadFailed,         \* history: some construction attempt has failed
    lastCall,           \* history: the last completed get_f5tts_instance call
    prevCall,           \* history: the completed call before lastCall
    failedPairs,        \* history: pairs whose most recent call failed
    ck_pc,              \* environment checker: position in main()
    all_passed,
    ck_env,             \* environment checker: the files and packages present
    ck_ran              \* environment checker: the checks that returned

globals == <<f5tts_instance, current_model, current_ckpt_file, model_loaded, F5TTS>>
hist == <<loadAttempted, loadFailed, lastCall, prevCall, failedPairs>>
ckvars == <<ck_pc, all_passed, ck_env, ck_ran>>
vars == <<f5tts_instance, current_model, current_ckpt_file, model_loaded, F5TTS,
          req, loop, sent, observed, loadAttempted, loadFailed, lastCall, prevCall, failedPairs,
          ck_pc, all_passed, ck_env, ck_ran>>

\* What a reader of the handle globals sees at one instant.
Snapshot == <<f5tts_instance, current_model, current_ckpt_file, model_loaded>>
NoSnapshot == <<>>

\* F5TTS_class(model=, ckpt_file=, vocab_file=): the handle remembers its arguments.
F5TTS_class(model, ckpt_file, vocab_file) == <<model, ckpt_file, vocab_file>>

NoResp == [status |-> 0, detail |-> "", model_loaded |-> FALSE, model |-> ""]
NoCall == [by |-> "none", pair |-> <<>>, attempted |-> FALSE, ok |-> FALSE,
           nctor |-> 0, retry |-> FALSE]

IdleReq == [kind |-> "idle", pc |-> "idle", content_type |-> None,
            model |-> DEFAULT_MODEL, ref_file |-> "none", out_file |-> FALSE,
            exc |-> "none", resp |-> NoResp, nctor |-> 0, ninfer |-> 0,
            load |-> "none", used |-> <<>>, entry |-> NoSnapshot]

\* str.startswith("audio/") on the declared content types of the model.
StartsWithAudio(ct) == ct = "audio/wav"

-----------------------------------------------------------------------------
\* The event loop.

\* Positions at which a handler gives the event loop back: it has returned
\* (done, idle) or is suspended in `await ref_audio.read()` (l190).
YieldsThreaded(pc) == TRUE
Yields(pc) == pc \in {"idle", "done", "l190"}

\* Request r may take a step: it holds the loop, or the loop is free.
Runnable(r) == loop \in {0, r}

\* One step of request r, leaving its locals as q; reads tells whether the
\* step read the handle globals.  A handler that returns hands its response to
\* the framework (sent) and its locals are gone.
Step(r, q, reads) ==
    /\ req' = [req EXCEPT ![r] = IF q.pc = "done" THEN IdleReq ELSE q]
    /\ sent' = IF q.pc = "done" THEN q ELSE IdleReq
    /\ observed' = IF reads THEN Snapshot ELSE NoSnapshot
    /\ loop' = IF Yields(q.pc) THEN 0 ELSE r

-----------------------------------------------------------------------------
\* get_f5tts_instance(model, ckpt_file, vocab_file)

\* The arguments the two callers pass (lines 85 and 186).
CallModel(q) == IF q.kind = "preload" THEN DEFAULT_MODEL ELSE q.model
CallPair(q) == <<CallModel(q), DEFAULT_CKPT_FILE>>

\* Lines 51-53.
NeedsLoadAlways(inst, cm, cc, model, ckpt_file) == TRUE
NeedsLoad(inst, cm, cc, model, ckpt_file) ==
    inst = <<>> \/ cm # model \/ cc # ckpt_file

\* Where the caller continues when the call returns / raises.
ReturnPc(q) == IF q.kind = "preload" THEN "l133" ELSE "l189"
RaisePc(q) == IF q.kind = "preload" THEN "l133" ELSE "l224"

\* History kept when a call completes.
CallDone(q, attempted, ok) ==
    /\ prevCall' = [by |-> lastCall.by, ok |-> lastCall.ok, nctor |-> lastCall.nctor]
    /\ lastCall' = [by |-> q.kind, pair |-> CallPair(q), attempted |-> attempted,
                    ok |-> ok, nctor |-> q.nctor,
                    retry |-> CallPair(q) \in failedPairs]
    /\ failedPairs' = IF ok THEN failedPairs \ {CallPair(q)}
                            ELSE failedPairs \cup {CallPair(q)}

\* Line 51: the condition; falls through to line 79 when nothing is to be done.
G51(r) ==
    /\ Runnable(r) /\ req[r].pc = "g51"
    /\ LET q == [req[r] EXCEPT !.entry = Snapshot] IN
       IF NeedsLoad(f5tts_instance, current_model, current_ckpt_file,
                    CallModel(q), DEFAULT_CKPT_FILE)
       THEN /\ Step(r, [q EXCEPT !.pc = "g57"], TRUE)
            /\ loadAttempted' = TRUE
            /\ UNCHANGED <<loadFailed, lastCall, prevCall, failedPairs>>
       ELSE /\ Step(r, [q EXCEPT !.pc = ReturnPc(q), !.load = "reused",
                                 !.entry = NoSnapshot], TRUE)
            /\ CallDone(q, FALSE, TRUE)
            /\ UNCHANGED <<loadAttempted, loadFailed>>
    /\ UNCHANGED <<globals, ckvars>>

\* Line 57, lazy_import_f5tts (lines 34-45): imports once, raises on failure.
G57(r) ==
    /\ Runnable(r) /\ req[r].pc = "g57"
    /\ \E imported \in IF F5TTS THEN {TRUE} ELSE BOOLEAN :
         /\ F5TTS' = imported
         /\ Step(r, [req[r] EXCEPT !.pc = IF imported THEN "g63" ELSE "g75"], FALSE)
    /\ UNCHANGED <<f5tts_instance, current_model, current_ckpt_file, model_loaded,
                   hist, ckvars>>

\* Lines 63-67: the constructor returns a handle, or raises and assigns nothing.
G63(r) ==
    /\ Runnable(r) /\ req[r].pc = "g63"
    /\ \E built \in BOOLEAN :
         /\ f5tts_instance' = IF built
                THEN F5TTS_class(CallModel(req[r]), DEFAULT_CKPT_FILE, DEFAULT_VOCAB_FILE)
                ELSE f5tts_instance
         /\ Step(r, [req[r] EXCEPT !.pc = IF built THEN "g68" ELSE "g75",
                                   !.nctor = @ + 1], FALSE)
    /\ UNCHANGED <<current_model, current_ckpt_file, model_loaded, F5TTS, hist, ckvars>>

\* Line 68.
G68(r) ==
    /\ Runnable(r) /\ req[r].pc = "g68"
    /\ current_model' = CallModel(req[r])
    /\ Step(r, [req[r] EXCEPT !.pc = "g69"], FALSE)
    /\ UNCHANGED <<f5tts_instance, current_ckpt_file, model_loaded, F5TTS, hist, ckvars>>

\* Line 69.
Line69Skipped(cc, ckpt_file) == cc
Line69(cc, ckpt_file) == ckpt_file

G69(r) ==
    /\ Runnable(r) /\ req[r].pc = "g69"
    /\ current_ckpt_file' = Line69(current_ckpt_file, DEFAULT_CKPT_FILE)
    /\ Step(r, [req[r] EXCEPT !.pc = "g70"], FALSE)
    /\ UNCHANGED <<f5tts_instance, current_model, model_loaded, F5TTS, hist, ckvars>>

\* Lines 70-73 and 79: the flag is set and the handle returned.
G70(r) ==
    /\ Runnable(r) /\ req[r].pc = "g70"
    /\ model_loaded' = TRUE
    /\ Step(r, [req[r] EXCEPT !.pc = ReturnPc(req[r]), !.load = "built",
                              !.entry = NoSnapshot], FALSE)
    /\ CallDone(req[r], TRUE, TRUE)
    /\ UNCHANGED <<f5tts_instance, current_model, current_ckpt_file, F5TTS,
                   loadAttempted, loadFailed, ckvars>>

\* Line 75.
Line75Kept(loaded) == loaded
Line75(loaded) == FALSE

\* Lines 74-77: the flag is cleared and HTTPException(500) raised to the caller;
\* preload_model (lines 87-89) swallows it, simple_tts lets it reach line 224.
G75(r) ==
    /\ Runnable(r) /\ req[r].pc = "g75"
    /\ model_loaded' = Line75(model_loaded)
    /\ Step(r, [req[r] EXCEPT !.pc = RaisePc(req[r]), !.load = "failed",
                              !.exc = IF req[r].kind = "preload" THEN "none"
                                      ELSE "HTTPException500",
                              !.entry = NoSnapshot], FALSE)
    /\ CallDone(req[r], TRUE, FALSE)
    /\ loadFailed' = TRUE
    /\ UNCHANGED <<f5tts_instance, current_model, current_ckpt_file, F5TTS,
                   loadAttempted, ckvars>>

-----------------------------------------------------------------------------
\* The read-only endpoints: each is one step from arrival to response.

\* GET / (lines 106-126).
Root(r) ==
    /\ loop = 0 /\ req[r].pc = "idle"
    /\ Step(r, [IdleReq EXCEPT !.kind = "root", !.pc = "done",
                  !.resp = [status |-> 200, detail |-> "running",
                            model_loaded |-> model_loaded,
                            model |-> IF current_model # None THEN current_model
                                      ELSE DEFAULT_MODEL]], TRUE)
    /\ UNCHANGED <<globals, hist, ckvars>>

\* Line 146.
HealthStatusAlways(loaded) == "healthy"
HealthStatus(loaded) == IF loaded THEN "healthy" ELSE "degraded"

\* GET /health (lines 141-149).
Health(r) ==
    /\ loop = 0 /\ req[r].pc = "idle"
    /\ Step(r, [IdleReq EXCEPT !.kind = "health", !.pc = "done",
                  !.resp = [status |-> 200, detail |-> HealthStatus(model_loaded),
                            model_loaded |-> model_loaded, model |-> ""]], TRUE)
    /\ UNCHANGED <<globals, hist, ckvars>>

\* GET /models (lines 151-166).
GetModels(r) ==
    /\ loop = 0 /\ req[r].pc = "idle"
    /\ Step(r, [IdleReq EXCEPT !.kind = "models", !.pc = "done",
                  !.resp = [status |-> 200,
                            detail |-> IF model_loaded /\ current_model = "F5TTS_v1_Base"
                                       THEN "loaded" ELSE "available",
                            model_loaded |-> FALSE, model |-> "F5TTS_v1_Base"]], TRUE)
    /\ UNCHANGED <<globals, hist, ckvars>>

-----------------------------------------------------------------------------
\* POST /preload (lines 128-139) with preload_model (lines 81-89).

\* Lines 131-132 and 83-85: the handler starts and calls get_f5tts_instance.
PreloadStart(r) ==
    /\ loop = 0 /\ req[r].pc = "idle"
    /\ Step(r, [IdleReq EXCEPT !.kind = "preload", !.pc = "g51"], FALSE)
    /\ UNCHANGED <<globals, hist, ckvars>>

\* Lines 133-137: preload_model returned (it swallows every exception), so the
\* handler answers with the success message and the globals it reads now.
PreloadReturn(r) ==
    /\ Runnable(r) /\ req[r].kind = "preload" /\ req[r].pc = "l133"
    /\ Step(r, [req[r] EXCEPT !.pc = "done",
                  !.resp = [status |-> 200, detail |-> "preload succeeded",
                            model_loaded |-> model_loaded,
                            model |-> current_model]], TRUE)
    /\ UNCHANGED <<globals, hist, ckvars>>

-----------------------------------------------------------------------------
\* POST /tts-simple (lines 168-226).

\* Line 184.
EnsureAlways(loaded, inst) == TRUE
EnsureNeeded(loaded, inst) == ~loaded \/ inst = <<>>

\* Lines 178-186: the content type check, then the load if the flag is clear.
\* content_type None makes .startswith raise AttributeError.
TtsStart(r) ==
    /\ loop = 0 /\ req[r].pc = "idle"
    /\ \E ct \in ContentTypes, m \in Models :
         LET q == [IdleReq EXCEPT !.kind = "tts", !.content_type = ct, !.model = m] IN
         IF ct = None
         THEN Step(r, [q EXCEPT !.pc = "l224", !.exc = "AttributeError"], FALSE)
         ELSE IF ~StartsWithAudio(ct)
         THEN Step(r, [q EXCEPT !.pc = "l224", !.exc = "HTTPException400"], FALSE)
         ELSE IF EnsureNeeded(model_loaded, f5tts_instance)
         THEN Step(r, [q EXCEPT !.pc = "g51"], TRUE)
         ELSE Step(r, [q EXCEPT !.pc = "l189"], TRUE)
    /\ UNCHANGED <<globals, hist, ckvars>>

\* Lines 189-190: the temporary file is created (delete=False) and the handler
\* suspends in `await ref_audio.read()`.
TtsCreateRef(r) ==
    /\ Runnable(r) /\ req[r].kind = "tts" /\ req[r].pc = "l189"
    /\ Step(r, [req[r] EXCEPT !.pc = "l190", !.ref_file = "exists"], FALSE)
    /\ UNCHANGED <<globals, hist, ckvars>>

\* Lines 190-192: the read resumes; it or the write may raise, which leaves the
\* with block (closing, not deleting, the file) before temp_ref_path is bound
\* and before the try of line 194 is entered.
TtsReadWrite(r) ==
    /\ loop = 0 /\ req[r].kind = "tts" /\ req[r].pc = "l190"
    /\ \E outcome \in {"ok", "read raises", "write raises"} :
         IF outcome = "ok"
         THEN Step(r, [req[r] EXCEPT !.pc = "l196"], FALSE)
         ELSE Step(r, [req[r] EXCEPT !.pc = "l224", !.exc = "OSError"], FALSE)
    /\ UNCHANGED <<globals, hist, ckvars>>

\* Lines 196-217: the output file is created and the resident handle, read from
\* the global now, runs the synthesis; it returns or raises.
TtsInfer(r) ==
    /\ Runnable(r) /\ req[r].kind = "tts" /\ req[r].pc = "l196"
    /\ \E ok \in BOOLEAN :
         Step(r, [req[r] EXCEPT !.pc = "l221", !.out_file = TRUE,
                    !.ninfer = @ + 1, !.used = f5tts_instance,
                    !.exc = IF ok THEN "none" ELSE "RuntimeError"], TRUE)
    /\ UNCHANGED <<globals, hist, ckvars>>

\* Lines 219-222: finally; the reference file is unlinked if it exists.  The
\* FileResponse of line 213 is returned when nothing was raised.
TtsFinally(r) ==
    /\ Runnable(r) /\ req[r].kind = "tts" /\ req[r].pc = "l221"
    /\ LET q == [req[r] EXCEPT !.ref_file = IF @ = "exists" THEN "unlinked" ELSE @] IN
       IF q.exc = "none"
       THEN Step(r, [q EXCEPT !.pc = "done",
                       !.resp = [status |-> 200, detail |-> "audio/wav",
                                 model_loaded |-> FALSE, model |-> ""]], FALSE)
       ELSE Step(r, [q EXCEPT !.pc = "l224"], FALSE)
    /\ UNCHANGED <<globals, hist, ckvars>>

\* Lines 224-226: every exception, the HTTPException(400) of line 181 included,
\* is answered with status 500.
TtsExcept(r) ==
    /\ Runnable(r) /\ req[r].kind = "tts" /\ req[r].pc = "l224"
    /\ Step(r, [req[r] EXCEPT !.pc = "done",
                  !.resp = [status |-> 500, detail |-> "inference failed",
                            model_loaded |-> FALSE, model |-> ""]], FALSE)
    /\ UNCHANGED <<globals, hist, ckvars>>

-----------------------------------------------------------------------------
CheckerOff == ck_pc = "off" /\ all_passed = TRUE /\ ck_env = <<>> /\ ck_ran = <<>>

Init ==
    /\ f5tts_instance = <<>>
    /\ current_model = None
    /\ current_ckpt_file = None
    /\ model_loaded = FALSE
    /\ F5TTS = FALSE
    /\ req = [r \in Req |-> IdleReq]
    /\ loop = 0
    /\ loadAttempted = FALSE
    /\ loadFailed = FALSE
    /\ lastCall = NoCall
    /\ prevCall = [by |-> "none", ok |-> FALSE, nctor |-> 0]
    /\ sent = IdleReq
    /\ observed = NoSnapshot
    /\ failedPairs = {}
    /\ CheckerOff

Next ==
    \E r \in Req :
        \/ Root(r)
        \/ Health(r)
        \/ GetModels(r)
        \/ PreloadStart(r)
        \/ PreloadReturn(r)
        \/ TtsStart(r)
        \/ TtsCreateRef(r)
        \/ TtsReadWrite(r)
        \/ TtsInfer(r)
        \/ TtsFinally(r)
        \/ TtsExcept(r)
        \/ G51(r)
        \/ G57(r)
        \/ G63(r)
        \/ G68(r)
        \/ G69(r)
        \/ G70(r)
        \/ G75(r)

Spec == Init /\ [][Next]_vars

\* The event loop never stays idle while a handler can run or a request can
\* be accepted.
FairSpec == Spec /\ WF_vars(Next)

-----------------------------------------------------------------------------
\* The environment checker, test_model_load.py: a separate program.

CheckerEnvs ==
    [model_file : {"absent", "present"},
     vocab_file : {"absent", "utf-8", "not utf-8"},
     f5_tts     : {"importable", "not installed", "raises on import"},
     torch      : BOOLEAN,
     cuda       : BOOLEAN,
     safetensors : {"reads", "not installed", "rejects the file"}]

\* check_files (lines 16-37): nothing is caught, so the UnicodeDecodeError of
\* readlines() on a vocabulary that is not UTF-8 leaves the function.
check_files(env) ==
    IF env.model_file = "absent" THEN "False"
    ELSE IF env.vocab_file = "absent" THEN "False"
    ELSE IF env.vocab_file = "not utf-8" THEN "raises"
    ELSE "True"

\* test_import (lines 39-60): only ImportError is caught.
test_import(env) ==
    IF env.f5_tts = "importable" THEN "True"
    ELSE IF env.f5_tts = "not installed" THEN "False"
    ELSE "raises"

\* test_model_load (lines 62-89): every Exception is caught.
test_model_load(env) ==
    IF /\ env.torch
       /\ env.safetensors = "reads"
       /\ env.model_file = "present"
    THEN "True" ELSE "False"

\* One `all_passed &= check()` statement of main (lines 102-104).
RunCheck(at, name, result, next) ==
    /\ ck_pc = at
    /\ IF result = "raises"
       THEN /\ ck_pc' = "raised"
            /\ UNCHANGED <<all_passed, ck_ran>>
       ELSE /\ ck_pc' = next
            /\ all_passed' = (all_passed /\ result = "True")
            /\ ck_ran' = Append(ck_ran, name)
    /\ UNCHANGED <<ck_env, globals, req, loop, sent, observed, hist>>

MainCheckFiles == RunCheck("l102", "check_files", check_files(ck_env), "l103")
MainTestImport == RunCheck("l103", "test_import", test_import(ck_env), "l104")
MainTestModelLoad ==
    RunCheck("l104", "test_model_load", test_model_load(ck_env), "l106")

\* Lines 106-114: the summary is printed and main returns.
MainSummary ==
    /\ ck_pc = "l106"
    /\ ck_pc' = "returned"
    /\ UNCHANGED <<all_passed, ck_ran, ck_env, globals, req, loop, sent, observed, hist>>

ServerOff ==
    /\ f5tts_instance = <<>> /\ current_model = None /\ current_ckpt_file = None
    /\ model_loaded = FALSE /\ F5TTS = FALSE
    /\ req = [r \in Req |-> IdleReq] /\ loop = 0
    /\ sent = IdleReq /\ observed = NoSnapshot
    /\ loadAttempted = FALSE /\ loadFailed = FALSE
    /\ lastCall = NoCall /\ prevCall = [by |-> "none", ok |-> FALSE, nctor |-> 0]
    /\ failedPairs = {}

\* main() has been entered (lines 93-101).
CheckerInit ==
    /\ ServerOff
    /\ ck_pc = "l102"
    /\ all_passed = TRUE
    /\ ck_env \in CheckerEnvs
    /\ ck_ran = <<>>

CheckerNext ==
    \/ MainCheckFiles
    \/ MainTestImport
    \/ MainTestModelLoad
    \/ MainSummary

CheckerSpec == CheckerInit /\ [][CheckerNext]_vars

-----------------------------------------------------------------------------
\* Properties.

\* A combination of handle, recorded identifier, recorded checkpoint path and
\* flag that a completed get_f5tts_instance call (or the start) leaves behind:
\* nothing resident and nothing recorded, or a handle with its own arguments
\* recorded.
Consistent(s) ==
    \/ s = NoSnapshot
    \/ s[1] = <<>> /\ s[2] = None /\ s[3] = None /\ ~s[4]
    \/ s[1] # <<>> /\ s[1][1] = s[2] /\ s[1][2] = s[3]

LoadState ==
    IF model_loaded THEN "loaded"
    ELSE IF loadFailed THEN "load-failed" ELSE "unloaded"

\* The two most recent get_f5tts_instance calls were both made by /preload.
TwoPreloads == lastCall.by = "preload" /\ prevCall.by = "preload"

\* C1: a /tts-simple upload whose content type does not start with "audio/"
\* is answered with HTTP 400, and neither the constructor nor infer is called.
C1_NonAudioIs400 ==
    (sent.kind = "tts" /\ ~StartsWithAudio(sent.content_type)) =>
        /\ sent.resp.status = 400
        /\ sent.nctor = 0
        /\ sent.ninfer = 0

\* C2: when /tts-simple returns or raises after creating the reference
\* temporary file, that file no longer exists.
C2_RefFileDeleted ==
    (sent.kind = "tts" /\ sent.ref_file # "none") => sent.ref_file = "unlinked"

\* C3 as stated: two /preload calls in a row construct at most once in total,
\* and the second constructs nothing, whether or not the first succeeded.
C3_AtMostOneConstruction ==
    TwoPreloads =>
        /\ prevCall.nctor + lastCall.nctor <= 1
        /\ lastCall.nctor = 0
        /\ ~lastCall.attempted

\* C3 amended: of two /preload calls in a row at most one constructs a handle
\* successfully; the second reuses the resident handle and constructs nothing
\* when the first returned one, and attempts construction again when the first
\* one's construction failed.
C3_SecondPreloadReusesAfterSuccess ==
    TwoPreloads =>
        /\ prevCall.ok => (~lastCall.attempted /\ lastCall.nctor = 0 /\ lastCall.ok)
        /\ ~prevCall.ok => lastCall.attempted
        /\ ~(prevCall.ok /\ prevCall.nctor = 1 /\ lastCall.ok /\ lastCall.nctor = 1)

C3_Witness ==
    /\ TwoPreloads
    /\ prevCall.ok /\ prevCall.nctor = 1
    /\ lastCall.ok /\ ~lastCall.attempted /\ lastCall.nctor = 0

\* C4: /health answers "degraded" as long as no load has been attempted and
\* "healthy" once the last load was a /preload whose construction succeeded;
\* a /health step leaves the globals and the load history unchanged.
C4_HealthFollowsLoad ==
    /\ [](sent.kind = "health" =>
            /\ ~loadAttempted => sent.resp.detail = "degraded"
            /\ (lastCall.by = "preload" /\ lastCall.ok /\ lastCall.nctor = 1)
                   => sent.resp.detail = "healthy")
    /\ [][sent'.kind = "health" => UNCHANGED <<globals, hist>>]_vars

C4_Witness ==
    /\ sent.kind = "health"
    /\ lastCall.by = "preload" /\ lastCall.ok /\ lastCall.nctor = 1
    /\ sent.resp.detail = "healthy"

\* C5: a /preload whose construction threw does not answer with the success
\* message.
C5_PreloadReportsFailure ==
    (sent.kind = "preload" /\ sent.load = "failed") =>
        (sent.resp.status # 200 /\ sent.resp.detail # "preload succeeded")

\* C6: main() runs the three checks in order and returns; no exception leaves it.
C6_MainAlwaysReturns ==
    /\ ck_pc # "raised"
    /\ ck_pc = "returned" => ck_ran = <<"check_files", "test_import", "test_model_load">>

\* C7: after a call that failed the flag is false, and the next call with the
\* same (identifier, checkpoint path) enters the construction branch again.
C7_FailureClearsFlagAndRetries ==
    /\ (lastCall.by # "none" /\ ~lastCall.ok) => ~model_loaded
    /\ lastCall.retry => lastCall.attempted

\* Two /preload calls in a row failed while a handle built for another
\* identifier was resident: the second one retried the construction.
C7_Witness ==
    /\ TwoPreloads /\ ~prevCall.ok /\ ~lastCall.ok
    /\ lastCall.retry /\ lastCall.attempted
    /\ f5tts_instance # <<>> /\ f5tts_instance[1] # DEFAULT_MODEL
    /\ ~model_loaded

\* C8 as stated: the load state moves only unloaded->loaded,
\* unloaded->load-failed and load-failed->loaded.
C8_OnlyThreeTransitions ==
    [][\/ LoadState' = LoadState
       \/ <<LoadState, LoadState'>> \in {<<"unloaded", "loaded">>,
                                         <<"unloaded", "load-failed">>,
                                         <<"load-failed", "loaded">>}]_vars

\* C8 amended: besides those three, loaded->load-failed happens, and only in
\* a /preload that found a handle recorded for another identifier and whose
\* construction threw; /tts-simple never makes a true flag false.
C8_FailedSwitchClearsFlag ==
    [][\/ LoadState' = LoadState
       \/ <<LoadState, LoadState'>> \in {<<"unloaded", "loaded">>,
                                         <<"unloaded", "load-failed">>,
                                         <<"load-failed", "loaded">>}
       \/ /\ LoadState = "loaded" /\ LoadState' = "load-failed"
          /\ current_model # DEFAULT_MODEL
          /\ f5tts_instance' = f5tts_instance
          /\ \E r \in Req : /\ req[r].kind = "preload" /\ req[r].pc = "g75"
                            /\ req'[r] # req[r]]_vars

\* A handle is resident and the flag is false: a loaded handle's switch failed.
C8_Witness ==
    /\ f5tts_instance # <<>> /\ ~model_loaded
    /\ lastCall.by = "preload" /\ ~lastCall.ok /\ lastCall.nctor = 1

\* C9 as stated: some request reads the handle globals in a combination that
\* no completed get_f5tts_instance call leaves behind.
C9_TornReadHappens == <>(~Consistent(observed))

\* C9 amended: every read of the handle globals by a request sees a
\* combination left behind by a completed call; get_f5tts_instance does not
\* await, so no request runs between its assignments.  What the suspension in
\* /tts-simple allows is a whole replacement between a request's load and its
\* synthesis.
C9_ReadsAreNeverTorn == Consistent(observed)

\* A /tts-simple request built the handle for its own identifier and, after
\* its awaited read, synthesized with a handle built for another one.
C9_Witness ==
    /\ sent.kind = "tts" /\ sent.load = "built" /\ sent.ninfer = 1
    /\ sent.used # <<>> /\ sent.used[1] # sent.model

====
